---------------------------- MODULE Spec2Model ----------------------------
(***************************************************************************)
(* A model of src/weights_detection.py: detect_weights(wrist_history_xy).  *)
(*                                                                         *)
(* Arithmetic.  Coordinates are normalized image coordinates; the model    *)
(* keeps them in fixed point, in tenths (x = 3 is 0.3).  np.var of n       *)
(* values is kept as the exact fraction num / den with                     *)
(*     num = n * Sum(x^2) - Sum(x)^2,   den = n^2,                         *)
(* which is the population variance.  np.linalg.norm is the square root    *)
(* rounded to the nearest thousandth, so distances and speeds are in       *)
(* thousandths.  Thresholds are written in the unit of the quantity they   *)
(* bound.  The rounding of binary floating point is not modelled.          *)
(***************************************************************************)
EXTENDS Integers, Sequences, FiniteSets

VARIABLES
    history,    \* the caller's argument object (site "A")
    twin,       \* the argument object of a second call site (site "B")
    ret,        \* per site: what the last call there gave back
    first,      \* per site: what the first call there gave back
    stdout,     \* per site: diagnostics the calls there printed
    calls       \* per site: calls made there so far

vars == <<history, twin, ret, first, stdout, calls>>

Sites == {"A", "B"}

(***************************************************************************)
(* Bounds of the model.                                                    *)
(***************************************************************************)
MaxLen == 21        \* the longest history
MaxCalls == 3       \* calls in one behaviour

(***************************************************************************)
(* Program constants, in the model's units.                                *)
(***************************************************************************)
MinFrames == 20             \* line 12: len(wrist_history_xy) < 20
BandAbove == 3              \* line 58: shoulder_l_y - 0.3, tenths
BandBelow == 4              \* line 59: shoulder_l_y + 0.4, tenths
PosVarLimit == 1            \* line 66: 0.01, in tenths squared
DistVarLimit == 15000       \* line 69: 0.015, in thousandths squared
VelVarLimit == 8000         \* line 72: 0.008, in thousandths squared

(***************************************************************************)
(* Arithmetic helpers.                                                     *)
(***************************************************************************)
RECURSIVE SumUpTo(_, _)
SumUpTo(s, n) == IF n = 0 THEN 0 ELSE s[n] + SumUpTo(s, n - 1)

Sum(s) == SumUpTo(s, Len(s))

Sq(s) == [i \in 1..Len(s) |-> s[i] * s[i]]

RECURSIVE ISqrtBetween(_, _, _)
ISqrtBetween(n, lo, hi) ==
    IF lo >= hi THEN lo
    ELSE LET mid == (lo + hi + 1) \div 2
         IN  IF mid * mid <= n THEN ISqrtBetween(n, mid, hi)
             ELSE ISqrtBetween(n, lo, mid - 1)

\* the square root of n rounded to the nearest integer
ISqrtNearest(n) ==
    LET r == ISqrtBetween(n, 0, IF n < 46340 THEN n ELSE 46340)
    IN  IF n - r * r > r THEN r + 1 ELSE r

\* a faulty np.var: the mean of the squares, the mean not taken off
np_var_second_moment(xs) ==
    [num |-> Len(xs) * Sum(Sq(xs)), den |-> Len(xs) * Len(xs)]

\* np.var(xs): the population variance of the sequence xs, as a fraction
np_var(xs) ==
    [num |-> Len(xs) * Sum(Sq(xs)) - Sum(xs) * Sum(xs), den |-> Len(xs) * Len(xs)]

\* np.var(pos, axis=0).sum(): the per-coordinate variances, added
np_var_axis0_sum(pos) ==
    LET nc == Len(pos[1])
        pervar == [c \in 1..nc |-> np_var([t \in 1..Len(pos) |-> pos[t][c]])]
    IN  [num |-> Sum([c \in 1..nc |-> pervar[c].num]), den |-> Len(pos) * Len(pos)]

\* np.linalg.norm(v): in thousandths, of a vector in tenths
np_norm(v) == ISqrtNearest(10000 * Sum(Sq(v)))

\* np.linalg.norm(a - b, axis=1)
np_norm_diff(a, b) ==
    [t \in 1..Len(a) |-> np_norm([c \in 1..Len(a[t]) |-> a[t][c] - b[t][c]])]

\* np.diff(pos, axis=0)
np_diff(pos) ==
    [t \in 1..(Len(pos) - 1) |-> [c \in 1..Len(pos[t]) |-> pos[t + 1][c] - pos[t][c]]]

\* np.linalg.norm(vel, axis=1)
np_norm_rows(vel) == [t \in 1..Len(vel) |-> np_norm(vel[t])]

\* var < limit, the limit in the unit of var's numerator
VarBelow(v, limit) == v.num < limit * v.den

(***************************************************************************)
(* Argument objects.  A history object is None, an object without len(),   *)
(* or a deque of frames.  A frame is what np.stack makes an array of: its  *)
(* points (each a sequence of coordinates) and the dtype they convert to.  *)
(***************************************************************************)
NoneObj == [kind |-> "None", items |-> <<>>]
IntObj == [kind |-> "int", items |-> <<>>]
Deque(items) == [kind |-> "deque", items |-> items]

Frame(pts) == [dtype |-> "float", pts |-> pts]
StrFrame(pts) == [dtype |-> "str", pts |-> pts]

\* the shape of a frame as an array, <<>> when its points are ragged
FrameShape(f) ==
    IF \A j \in 1..Len(f.pts) : Len(f.pts[j]) = Len(f.pts[1])
    THEN <<Len(f.pts), Len(f.pts[1])>>
    ELSE <<>>

(***************************************************************************)
(* detect_weights, line by line.                                           *)
(***************************************************************************)
\* line 16: np.stack raises unless every frame is an array of one shape
np_stack_raises(items) ==
    \E t \in 1..Len(items) :
        FrameShape(items[t]) = <<>> \/ FrameShape(items[t]) # FrameShape(items[1])

\* line 16: W = np.stack(wrist_history_xy, axis=0)
np_stack(items) ==
    [shape |-> <<Len(items)>> \o FrameShape(items[1]),
     dtype |-> IF \E t \in 1..Len(items) : items[t].dtype = "str" THEN "str" ELSE "float",
     data |-> [t \in 1..Len(items) |-> items[t].pts]]

\* W[:, j, :], j counted from 0 as in the source
Joint(W, j) == [t \in 1..W.shape[1] |-> W.data[t][j + 1]]

wrist_l_pos(W) == Joint(W, 0)
wrist_r_pos(W) == Joint(W, 1)
shoulder_l(W) == Joint(W, 2)
shoulder_r(W) == Joint(W, 3)

\* a faulty wrist_l_var: taken of the frame-to-frame differences
wrist_l_var_of_diff(W) == np_var_axis0_sum(np_diff(wrist_l_pos(W)))

wrist_l_var(W) == np_var_axis0_sum(wrist_l_pos(W))
wrist_r_var(W) == np_var_axis0_sum(wrist_r_pos(W))

dist_l(W) == np_norm_diff(wrist_l_pos(W), shoulder_l(W))
dist_r(W) == np_norm_diff(wrist_r_pos(W), shoulder_r(W))
dist_l_var(W) == np_var(dist_l(W))
dist_r_var(W) == np_var(dist_r(W))

vel_l(W) == np_diff(wrist_l_pos(W))
vel_r(W) == np_diff(wrist_r_pos(W))
vel_l_mag(W) == np_norm_rows(vel_l(W))
vel_r_mag(W) == np_norm_rows(vel_r(W))
vel_l_var(W) == np_var(vel_l_mag(W))
vel_r_var(W) == np_var(vel_r_mag(W))

\* pos[:, 1]
YCoord(pos) == [t \in 1..Len(pos) |-> pos[t][2]]

wrist_l_y(W) == YCoord(wrist_l_pos(W))
wrist_r_y(W) == YCoord(wrist_r_pos(W))
\* a faulty shoulder_l_y: column 0, the x-coordinate
shoulder_l_y_column0(W) == [t \in 1..W.shape[1] |-> shoulder_l(W)[t][1]]

shoulder_l_y(W) == YCoord(shoulder_l(W))
shoulder_r_y(W) == YCoord(shoulder_r(W))

\* np.all(a > b - c) and np.all(a < b + c), elementwise over the frames
AllAbove(a, b, c) == \A t \in 1..Len(a) : a[t] > b[t] - c
\* a faulty upper band edge: <= in place of <
AllBelowOrOn(a, b, c) == \A t \in 1..Len(a) : a[t] <= b[t] + c

AllBelow(a, b, c) == \A t \in 1..Len(a) : a[t] < b[t] + c

y_range_ok(W) ==
    /\ AllAbove(wrist_l_y(W), shoulder_l_y(W), BandAbove)
    /\ AllBelow(wrist_l_y(W), shoulder_l_y(W), BandBelow)
    /\ AllAbove(wrist_r_y(W), shoulder_r_y(W), BandAbove)
    /\ AllBelow(wrist_r_y(W), shoulder_r_y(W), BandBelow)

\* a faulty pos_stable: <= in place of <
pos_stable_or_equal(W) ==
    /\ wrist_l_var(W).num <= PosVarLimit * wrist_l_var(W).den
    /\ wrist_r_var(W).num <= PosVarLimit * wrist_r_var(W).den

pos_stable(W) ==
    VarBelow(wrist_l_var(W), PosVarLimit) /\ VarBelow(wrist_r_var(W), PosVarLimit)

dist_stable(W) ==
    VarBelow(dist_l_var(W), DistVarLimit) /\ VarBelow(dist_r_var(W), DistVarLimit)

motion_smooth(W) ==
    VarBelow(vel_l_var(W), VelVarLimit) /\ VarBelow(vel_r_var(W), VelVarLimit)

position_reasonable(W) == y_range_ok(W)

weights_detected(W) ==
    pos_stable(W) /\ dist_stable(W) /\ motion_smooth(W) /\ position_reasonable(W)

\* what raises inside the try block, in the order of the lines
body_raises(W) ==
    \/ W.shape[2] < 2       \* line 21: index 1 is out of bounds for axis 1
    \/ W.dtype = "str"      \* line 24: np.var of strings
    \/ W.shape[2] < 4       \* lines 28-29: index 2, 3 out of bounds for axis 1
    \/ W.shape[3] < 2       \* line 51: index 1 is out of bounds for axis 1

\* the three ways a call ends
Returned(b) == [ret |-> IF b THEN "true" ELSE "false", printed |-> FALSE]
Caught == [ret |-> "false", printed |-> TRUE]
Escaped == [ret |-> "raised", printed |-> FALSE]

\* len(wrist_history_xy) raises TypeError for an object without __len__
len_raises(h) == h.kind = "int"

\* lines 15-89: the try block
try_block(items) ==
    IF np_stack_raises(items) THEN Caught
    ELSE IF body_raises(np_stack(items)) THEN Caught
    ELSE Returned(weights_detected(np_stack(items)))

\* a faulty precondition: <= in place of <, a history of 20 frames rejected
detect_weights_le(h) ==
    IF h.kind = "None" THEN Returned(FALSE)
    ELSE IF len_raises(h) THEN Escaped
    ELSE IF Len(h.items) <= MinFrames THEN Returned(FALSE)
    ELSE try_block(h.items)

\* a faulty detector with hidden state: once a call has returned true, a
\* latch makes every later call return false
detect_weights_latched(h) ==
    IF \E s \in Sites : ret[s] = "true" THEN Returned(FALSE)
    ELSE IF h.kind = "None" THEN Returned(FALSE)
    ELSE IF len_raises(h) THEN Escaped
    ELSE IF Len(h.items) < MinFrames THEN Returned(FALSE)
    ELSE try_block(h.items)

detect_weights(h) ==
    IF h.kind = "None" THEN Returned(FALSE)
    ELSE IF len_raises(h) THEN Escaped
    ELSE IF Len(h.items) < MinFrames THEN Returned(FALSE)
    ELSE try_block(h.items)

\* a faulty call that consumes the deque it reads: the oldest frame is popped
argument_after_popleft(h) ==
    IF h.items = <<>> THEN h ELSE [h EXCEPT !.items = Tail(h.items)]

\* what the call leaves of its argument: np.stack copies, nothing is written
argument_after(h) == h

(***************************************************************************)
(* The argument objects the calls are made with.  A well-formed history    *)
(* is a base pose (wrists under or over their shoulders by off tenths)     *)
(* with one motion laid over one side of the body: the wrist alone moves,  *)
(* wrist and shoulder move together, or the shoulder alone moves.          *)
(***************************************************************************)
Lens == MinFrames..MaxLen
ShortLens == {0, 1, MinFrames - 1}

Motions ==
    {[shape |-> "still", axis |-> 2, d |-> 0]}
    \cup [shape : {"alt"}, axis : {1, 2}, d : {1, 2, 3}]
    \cup [shape : {"spike"}, axis : {1, 2}, d : {2, 3}]

Modes == {"wrist", "rigid", "shoulder"}

\* how far the motion m has carried a point at frame t
Amount(m, t) ==
    CASE m.shape = "still" -> 0
      [] m.shape = "alt" -> m.d * (t % 2)
      [] m.shape = "spike" -> IF t = 10 THEN m.d ELSE 0
      [] m.shape = "drift" -> IF t <= 10 THEN 0 ELSE IF t <= 15 THEN m.d ELSE 3 * m.d
      [] m.shape = "settle" ->
            IF t <= 9 THEN 2 * m.d * ((t + 1) % 2)
            ELSE IF t <= 13 THEN m.d * ((t + 1) % 2)
            ELSE 0

Offset(m, t) == IF m.axis = 1 THEN <<Amount(m, t), 0>> ELSE <<0, Amount(m, t)>>

Plus(p, q) == [c \in 1..Len(p) |-> p[c] + q[c]]

\* the four points of frame t
Pose(side, mode, off, m, t) ==
    LET w == IF mode = "shoulder" THEN <<0, 0>> ELSE Offset(m, t)
        s == IF mode = "wrist" THEN <<0, 0>> ELSE Offset(m, t)
        z == <<0, 0>>
    IN  << Plus(<<3, 4 + off>>, IF side = "L" THEN w ELSE z),
           Plus(<<7, 4 + off>>, IF side = "R" THEN w ELSE z),
           Plus(<<3, 4>>, IF side = "L" THEN s ELSE z),
           Plus(<<7, 4>>, IF side = "R" THEN s ELSE z) >>

Moving(T, side, mode, off, m) ==
    Deque([t \in 1..T |-> Frame(Pose(side, mode, off, m, t))])

Still == [shape |-> "still", axis |-> 2, d |-> 0]
Edge == [shape |-> "spike", axis |-> 2, d |-> 2]
Drift == [shape |-> "drift", axis |-> 1, d |-> 1]
Settle == [shape |-> "settle", axis |-> 1, d |-> 1]

WellFormed ==
    {Moving(T, side, mode, 0, m) : T \in Lens, side \in {"L", "R"}, mode \in Modes, m \in Motions}
    \cup {Moving(T, side, "wrist", off, Still) :
            T \in Lens, side \in {"L", "R"}, off \in {-4, -3, -2, 3, 4, 5}}
    \cup {Moving(T, side, "wrist", 2, Edge) : T \in Lens, side \in {"L", "R"}}
    \cup {Moving(T, side, "shoulder", 0, Drift) : T \in Lens, side \in {"L", "R"}}
    \cup {Moving(T, side, "rigid", 0, Settle) : T \in Lens, side \in {"L", "R"}}

\* frames that break the 4 x 2 shape, or hold no numbers
P == <<5, 5>>
BadFrames ==
    { Frame(<<P, P>>), Frame(<<P, P, P>>), Frame(<<P, P, P, P, P>>),
      Frame(<<<<5>>, <<5>>, <<5>>, <<5>>>>),
      Frame(<<<<5, 5, 5>>, <<5, 5, 5>>, <<5, 5, 5>>, <<5, 5, 5>>>>),
      Frame(<<P, <<5, 5, 5>>, P, P>>),
      StrFrame(<<P, P, P, P>>) }
GoodFrame == Frame(<<P, P, P, P>>)

Repeat(T, f) == Deque([t \in 1..T |-> f])
\* one frame g among T - 1 frames f
OneAmong(T, f, g) == Deque([t \in 1..T |-> IF t = 3 THEN g ELSE f])

Malformed ==
    {Repeat(T, f) : T \in Lens, f \in BadFrames}
    \cup {OneAmong(T, GoodFrame, f) : T \in Lens, f \in BadFrames}

Short ==
    {Repeat(T, f) : T \in ShortLens, f \in BadFrames \cup {GoodFrame}}

Family == WellFormed \cup Malformed \cup Short \cup {NoneObj, IntObj}

(***************************************************************************)
(* The second call site's argument: the same history, its frames in        *)
(* another order, every point moved by one offset, or an unrelated object. *)
(***************************************************************************)
Swap(h, i, j) ==
    Deque([t \in 1..Len(h.items) |->
            IF t = i THEN h.items[j] ELSE IF t = j THEN h.items[i] ELSE h.items[t]])

Reverse(h) ==
    Deque([t \in 1..Len(h.items) |-> h.items[Len(h.items) + 1 - t]])

Shift(h, dx, dy) ==
    Deque([t \in 1..Len(h.items) |->
            Frame([j \in 1..Len(h.items[t].pts) |-> Plus(h.items[t].pts[j], <<dx, dy>>)])])

SwapPairs == {<<1, 2>>, <<1, 10>>, <<10, 11>>}
Shifts == {<<1, 0>>, <<0, -2>>, <<2, 3>>}
Others == {NoneObj, IntObj, Repeat(MinFrames, Frame(<<P, P>>))}

Twins(h) ==
    {h} \cup Others
    \cup IF h \in WellFormed
         THEN {Swap(h, p[1], p[2]) : p \in SwapPairs} \cup {Reverse(h)}
              \cup {Shift(h, v[1], v[2]) : v \in Shifts}
         ELSE {}

(***************************************************************************)
(* The state machine: two call sites, each calling detect_weights with     *)
(* its own argument object, in any order.                                  *)
(***************************************************************************)
Arg(s) == IF s = "A" THEN history ELSE twin

Init ==
    /\ history \in Family
    /\ twin \in Twins(history)
    /\ ret = [s \in Sites |-> "none"]
    /\ first = [s \in Sites |-> "none"]
    /\ stdout = [s \in Sites |-> 0]
    /\ calls = [s \in Sites |-> 0]

\* one call of detect_weights at site s
Call(s) ==
    /\ calls["A"] + calls["B"] < MaxCalls
    /\ LET out == detect_weights(Arg(s))
       IN  /\ ret' = [ret EXCEPT ![s] = out.ret]
           /\ first' = [first EXCEPT ![s] = IF first[s] = "none" THEN out.ret ELSE first[s]]
           /\ stdout' = [stdout EXCEPT ![s] = stdout[s] + IF out.printed THEN 1 ELSE 0]
    /\ history' = IF s = "A" THEN argument_after(history) ELSE history
    /\ twin' = IF s = "B" THEN argument_after(twin) ELSE twin
    /\ calls' = [calls EXCEPT ![s] = calls[s] + 1]

CallA == Call("A")
CallB == Call("B")

Next == CallA \/ CallB

Spec == Init /\ [][Next]_vars

(***************************************************************************)
(* Vocabulary of the properties.                                           *)
(***************************************************************************)
Called(s) == ret[s] # "none"

\* a JointFrame: exactly 4 points of exactly 2 numeric coordinates
IsJointFrame(f) ==
    /\ f.dtype = "float"
    /\ Len(f.pts) = 4
    /\ \A j \in 1..4 : Len(f.pts[j]) = 2

IsDeque(h) == h.kind = "deque"
LongEnough(h) == IsDeque(h) /\ Len(h.items) >= 20
AllJointFrames(h) == \A t \in 1..Len(h.items) : IsJointFrame(h.items[t])
\* a well-formed history of T >= 20 frames
WellFormedHistory(h) == LongEnough(h) /\ AllJointFrames(h)

(***************************************************************************)
(* C1.  An absent history, or one of 0..19 frames, gives false and prints  *)
(* no diagnostic, whatever its frames hold.  A history of exactly 20       *)
(* frames gets past the precondition: malformed frames are then seen (a    *)
(* diagnostic is printed), and well-formed frames are judged by the        *)
(* thresholds.                                                             *)
(***************************************************************************)
C1_ShortHistoryGivesFalse ==
    \A s \in Sites :
        Called(s) =>
            /\ (Arg(s).kind = "None" \/ (IsDeque(Arg(s)) /\ Len(Arg(s).items) < 20))
                  => (ret[s] = "false" /\ stdout[s] = 0)
            /\ (IsDeque(Arg(s)) /\ Len(Arg(s).items) = 20)
                  => IF AllJointFrames(Arg(s))
                     THEN ret[s] = "true" <=> weights_detected(np_stack(Arg(s).items))
                     ELSE (\E t \in 1..20 : Len(Arg(s).items[t].pts) < 4)
                              => (ret[s] = "false" /\ stdout[s] > 0)

\* a history of 19 frames, one of them malformed, has been judged
C1_Witness ==
    /\ Called("A")
    /\ IsDeque(history) /\ Len(history.items) = 19
    /\ ~AllJointFrames(history)
    /\ stdout["A"] = 0

(***************************************************************************)
(* C2.  No call ends with an exception escaping to the caller: every call  *)
(* returns a boolean, whatever the argument object.                        *)
(***************************************************************************)
C2_NoExceptionEscapes ==
    \A s \in Sites : ret[s] \in {"none", "true", "false"}

(***************************************************************************)
(* C3.  A history of 20 or more frames with a frame that is not a          *)
(* JointFrame gives false.                                                 *)
(***************************************************************************)
C3_MalformedGivesFalse ==
    \A s \in Sites :
        (Called(s) /\ LongEnough(Arg(s)) /\ ~AllJointFrames(Arg(s)))
            => ret[s] = "false"

(***************************************************************************)
(* The signals as the specification words them, from the frames of the     *)
(* history itself: population variance is the mean squared deviation from  *)
(* the mean, here n^3 times it, Sum((n * x - Sum(x))^2).                   *)
(***************************************************************************)
\* the joints of a JointFrame, in their fixed order (the source counts from 0)
LeftWrist == 1
RightWrist == 2
LeftShoulder == 3
RightShoulder == 4
Lw(h, t) == h.items[t].pts[LeftWrist]
Rw(h, t) == h.items[t].pts[RightWrist]
Ls(h, t) == h.items[t].pts[LeftShoulder]
Rs(h, t) == h.items[t].pts[RightShoulder]
FramesOf(h) == 1..Len(h.items)

PopVarCubed(xs) ==
    LET n == Len(xs)
        total == Sum(xs)
    IN  Sum([i \in 1..n |-> (n * xs[i] - total) * (n * xs[i] - total)])

\* population variance of xs < limit
PopVarBelow(xs, limit) == PopVarCubed(xs) < limit * Len(xs) * Len(xs) * Len(xs)
\* population variance of xs > limit
PopVarAbove(xs, limit) == PopVarCubed(xs) > limit * Len(xs) * Len(xs) * Len(xs)

\* coordinate c of a joint over the frames
Series(h, j, c) == [t \in 1..Len(h.items) |-> h.items[t].pts[j][c]]

\* the Euclidean distance of two points, in thousandths
Euclid(p, q) ==
    ISqrtNearest(10000 * ((p[1] - q[1]) * (p[1] - q[1]) + (p[2] - q[2]) * (p[2] - q[2])))

DistSeries(h, wrist, shoulder) ==
    [t \in 1..Len(h.items) |-> Euclid(h.items[t].pts[wrist], h.items[t].pts[shoulder])]

SpeedSeries(h, wrist) ==
    [t \in 1..(Len(h.items) - 1) |->
        Euclid(h.items[t + 1].pts[wrist], h.items[t].pts[wrist])]

\* posVar < 0.01: the per-axis variances added; both have the denominator n^3
PosVarBelow(h, wrist) ==
    PopVarCubed(Series(h, wrist, 1)) + PopVarCubed(Series(h, wrist, 2))
        < 1 * Len(h.items) * Len(h.items) * Len(h.items)

InBand(w, sh) == w[2] > sh[2] - 3 /\ w[2] < sh[2] + 4

PositionReasonable(h) ==
    \A t \in FramesOf(h) : InBand(Lw(h, t), Ls(h, t)) /\ InBand(Rw(h, t), Rs(h, t))

AllSignalsHold(h) ==
    /\ PosVarBelow(h, LeftWrist) /\ PosVarBelow(h, RightWrist)
    /\ PopVarBelow(DistSeries(h, LeftWrist, LeftShoulder), 15000)
    /\ PopVarBelow(DistSeries(h, RightWrist, RightShoulder), 15000)
    /\ PopVarBelow(SpeedSeries(h, LeftWrist), 8000) /\ PopVarBelow(SpeedSeries(h, RightWrist), 8000)
    /\ PositionReasonable(h)

\* the variance of one wrist on one axis alone exceeds 0.01
OneAxisExceeds(h) ==
    \E c \in {1, 2} :
        PopVarAbove(Series(h, LeftWrist, c), 1) \/ PopVarAbove(Series(h, RightWrist, c), 1)

(***************************************************************************)
(* C4.  On a well-formed history of T >= 20 frames the result is true      *)
(* exactly when the six variances are strictly below their thresholds and  *)
(* every frame is in the plausible band; a wrist whose variance on one     *)
(* axis alone exceeds 0.01 makes it false.                                 *)
(***************************************************************************)
C4_TrueIffAllSignals ==
    \A s \in Sites :
        (Called(s) /\ WellFormedHistory(Arg(s))) =>
            /\ ret[s] = "true" <=> AllSignalsHold(Arg(s))
            /\ ret[s] = "false" <=> ~AllSignalsHold(Arg(s))
            /\ OneAxisExceeds(Arg(s)) => ret[s] = "false"

\* a position variance exactly on its threshold, every other signal passing
C4_Witness ==
    /\ Called("A") /\ WellFormedHistory(history)
    /\ PopVarCubed(Series(history, LeftWrist, 1)) + PopVarCubed(Series(history, LeftWrist, 2))
         = Len(history.items) * Len(history.items) * Len(history.items)
    /\ PosVarBelow(history, RightWrist)
    /\ PopVarBelow(DistSeries(history, LeftWrist, LeftShoulder), 15000)
    /\ PopVarBelow(DistSeries(history, RightWrist, RightShoulder), 15000)
    /\ PopVarBelow(SpeedSeries(history, LeftWrist), 8000)
    /\ PopVarBelow(SpeedSeries(history, RightWrist), 8000)
    /\ PositionReasonable(history)
    /\ ret["A"] = "false"

(***************************************************************************)
(* C5.  On a well-formed history of T >= 20 frames, one frame with one     *)
(* wrist not strictly inside the band of its shoulder makes the result     *)
(* false, a wrist exactly on a band edge included.                         *)
(***************************************************************************)
C5_OutOfBandGivesFalse ==
    \A s \in Sites :
        (/\ Called(s) /\ WellFormedHistory(Arg(s))
         /\ \E t \in FramesOf(Arg(s)) :
                \/ ~InBand(Lw(Arg(s), t), Ls(Arg(s), t))
                \/ ~InBand(Rw(Arg(s), t), Rs(Arg(s), t)))
            => ret[s] = "false"

\* one single frame has a wrist on the lower band edge, the variances all pass
C5_Witness ==
    /\ Called("A") /\ WellFormedHistory(history)
    /\ Cardinality({t \in FramesOf(history) :
                        ~(InBand(Lw(history, t), Ls(history, t))
                          /\ InBand(Rw(history, t), Rs(history, t)))}) = 1
    /\ \E t \in FramesOf(history) : Lw(history, t)[2] = Ls(history, t)[2] + 4
    /\ pos_stable(np_stack(history.items))
    /\ dist_stable(np_stack(history.items))
    /\ motion_smooth(np_stack(history.items))
    /\ ret["A"] = "false"

(***************************************************************************)
(* C6.  T >= 20 copies of one well-formed frame whose wrists are strictly  *)
(* inside the band give true, and all six variances are 0.                 *)
(***************************************************************************)
IdenticalFrames(h) == \A t \in FramesOf(h) : h.items[t] = h.items[1]

C6_IdenticalFramesGiveTrue ==
    \A s \in Sites :
        (/\ Called(s) /\ WellFormedHistory(Arg(s)) /\ IdenticalFrames(Arg(s))
         /\ InBand(Lw(Arg(s), 1), Ls(Arg(s), 1))
         /\ InBand(Rw(Arg(s), 1), Rs(Arg(s), 1)))
            => /\ ret[s] = "true"
               /\ LET W == np_stack(Arg(s).items)
                  IN  /\ wrist_l_var(W).num = 0 /\ wrist_r_var(W).num = 0
                      /\ dist_l_var(W).num = 0 /\ dist_r_var(W).num = 0
                      /\ vel_l_var(W).num = 0 /\ vel_r_var(W).num = 0
                      /\ Len(vel_l_mag(W)) = Len(Arg(s).items) - 1

\* exactly 20 identical frames, wrists off their shoulders, judged true
C6_Witness ==
    /\ Called("A") /\ WellFormedHistory(history) /\ IdenticalFrames(history)
    /\ Len(history.items) = 20
    /\ Lw(history, 1) # Ls(history, 1)
    /\ ret["A"] = "true"

Count(items, f) == Cardinality({t \in 1..Len(items) : items[t] = f})

IsPermutation(h, g) ==
    /\ Len(h.items) = Len(g.items)
    /\ \A t \in FramesOf(h) : Count(h.items, h.items[t]) = Count(g.items, h.items[t])

C9_OrderOnlyMovesVelocity ==
    (/\ Called("A") /\ Called("B")
     /\ WellFormedHistory(history) /\ WellFormedHistory(twin)
     /\ IsPermutation(history, twin))
        => LET W == np_stack(history.items)
               V == np_stack(twin.items)
           IN  /\ wrist_l_var(W) = wrist_l_var(V)
               /\ wrist_r_var(W) = wrist_r_var(V)
               /\ dist_l_var(W) = dist_l_var(V)
               /\ dist_r_var(W) = dist_r_var(V)
               /\ y_range_ok(W) = y_range_ok(V)
               /\ ret["A"] # ret["B"] => motion_smooth(W) # motion_smooth(V)

\* a reordering that changed a velocity variance and the result with it
C9_Witness ==
    /\ Called("A") /\ Called("B")
    /\ WellFormedHistory(history) /\ WellFormedHistory(twin)
    /\ IsPermutation(history, twin)
    /\ vel_l_var(np_stack(history.items)) # vel_l_var(np_stack(twin.items))
    /\ ret["A"] = "false" /\ ret["B"] = "true"

(***************************************************************************)
(* C10.  Moving all four points of every frame by one offset (dx, dy)      *)
(* leaves the result of a well-formed history as it was.                   *)
(***************************************************************************)
IsTranslation(h, g) ==
    /\ Len(h.items) = Len(g.items)
    /\ \A t \in FramesOf(h) : \A j \in 1..4 : \A c \in 1..2 :
          g.items[t].pts[j][c] - h.items[t].pts[j][c]
              = g.items[1].pts[1][c] - h.items[1].pts[1][c]

=============================================================================
